---- MODULE Spec2Model ----
(***************************************************************************)
(* Model of the Homebrew package analyzers of ericfitz/brewinfo:           *)
(* BrewAnalyzer (brewinfo.py) and OptimizedBrewAnalyzer                    *)
(* (brewinfo_optimized.py).  One analyzer instance is the program state;   *)
(* the brew executable and the formulae.brew.sh API are the environment.   *)
(* One analyze_packages call is one step.                                  *)
(***************************************************************************)
EXTENDS Integers, Sequences, FiniteSets, TLC

VARIABLES
    cls,                  \* class of the analyzer instance
    packages,             \* self.packages: name -> PackageInfo
    reverse_dependencies, \* self.reverse_dependencies: name -> set of names
    installed_packages,   \* self.installed_packages
    use_api,              \* self.use_api
    batch_size,           \* self.batch_size
    api_cache,            \* self._api_cache
    brew_present,         \* environment: the brew executable can be started
    list_formula,         \* environment: lines of `brew list --formula`
    list_cask,            \* environment: lines of `brew list --cask`
    world,                \* environment: which package data brew and the API hold
    fault,                \* environment: the identity whose info query misbehaves
    api_formula,          \* environment: outcome of GET formula.json
    api_cask,             \* environment: outcome of GET cask.json
    status,               \* how the last analyze_packages call ended
    passes,               \* number of analyze_packages calls made
    log,                  \* external calls of the last analyze_packages call
    sources,              \* where the last call's catalog insertions came from
    fell_back,            \* a pass has found the API unavailable and fallen back
    changes,              \* number of changes of the environment so far
    call                  \* the last direct call of another method since the
                          \* last pass or change, and its result

vars == <<cls, packages, reverse_dependencies, installed_packages, use_api,
          batch_size, api_cache, brew_present, list_formula, list_cask, world,
          fault, api_formula, api_cask, status, passes, log, sources,
          fell_back, changes, call>>

envVars == <<brew_present, list_formula, list_cask, world, fault,
             api_formula, api_cask>>

-----------------------------------------------------------------------------
(* Bounds of the model *)

MaxBatchSize == 2
MaxPasses == 2
MaxChanges == 1
MaxDeps == 2
MaxBatchLen == 2

-----------------------------------------------------------------------------
(* Python values *)

\* Optional[PackageInfo]: None, or a one-element sequence holding the record
None == <<>>
Some(v) == <<v>>

\* {} and dict item assignment
EmptyDict == [k \in {} |-> {}]
Put(d, k, v) == [y \in DOMAIN d \cup {k} |-> IF y = k THEN v ELSE d[y]]

\* dict.get(key, default)
Get(d, key, default) == IF key \in DOMAIN d THEN d[key] ELSE default

\* truth value of a dict or list
Truthy(d) == DOMAIN d # {}

\* the set of elements of a list
Elems(s) == {s[i] : i \in DOMAIN s}

Min(a, b) == IF a < b THEN a ELSE b

\* Slice taking one element too many: s[i : j + 1]
SliceInclusive(s, i, j) == SubSeq(s, i + 1, Min(j + 1, Len(s)))

\* s[i : j] with 0-based i, j as in Python slicing
Slice(s, i, j) == SubSeq(s, i + 1, Min(j, Len(s)))

NoDescription == "No description available"

-----------------------------------------------------------------------------
(* The environment: what brew and the API answer *)

Names == {"a", "b", "c"}

\* a name list as brew prints it: sorted, no name twice
NameOrder == <<"a", "b", "c">>
InSet(S, n) == n \in S
SortedList(S) == SelectSeq(NameOrder, LAMBDA n : InSet(S, n))
SortedLists == {SortedList(S) : S \in SUBSET Names}

\* the JSON object brew (and the API) holds for a formula
FormulaObject(w, n) ==
    IF w = "w1" THEN
        CASE n = "a" -> [name |-> "a", desc |-> "A", homepage |-> "ha",
                         build_dependencies |-> <<"b">>,
                         dependencies |-> <<"c", "z">>]
          [] n = "b" -> [name |-> "b", desc |-> "B", homepage |-> "hb",
                         dependencies |-> <<"c">>]
          [] OTHER   -> [name |-> n, homepage |-> "hc"]
    ELSE
        CASE n = "a" -> [name |-> "a", desc |-> "A",
                         build_dependencies |-> <<"b">>,
                         dependencies |-> <<"b", "b">>]
          [] n = "b" -> [name |-> "b", desc |-> "B", homepage |-> "hb",
                         build_dependencies |-> <<"a", "z">>,
                         dependencies |-> <<>>]
          [] OTHER   -> [name |-> n, desc |-> "C", homepage |-> "hc",
                         build_dependencies |-> <<"c">>,
                         dependencies |-> <<"a">>]

\* the JSON object brew (and the API) holds for a cask; a cask object may
\* carry any field, dependency fields included
CaskObject(w, n) ==
    IF w = "w1" THEN
        CASE n = "a" -> [token |-> "a", desc |-> "cask A", homepage |-> "ca",
                         dependencies |-> <<"b">>]
          [] n = "b" -> [token |-> "b", desc |-> "cask B", homepage |-> "cb"]
          [] OTHER   -> [token |-> n, desc |-> "cask C", homepage |-> "cc"]
    ELSE
        CASE n = "a" -> [token |-> "a", homepage |-> "ca"]
          [] n = "b" -> [token |-> "b", desc |-> "cask B", homepage |-> "cb",
                         build_dependencies |-> <<"a">>]
          [] OTHER   -> [token |-> n, desc |-> "cask C", homepage |-> "cc",
                         build_dependencies |-> <<"a">>,
                         dependencies |-> <<"z">>]

Worlds == {"w1", "w2"}

\* the ways one identity can make the info query that names it misbehave
FaultModes == {"error", "garbage", "null", "omitted", "renamed", "nokey",
               "notobject"}

NoFault == [mode |-> "none", name |-> "a", is_cask |-> FALSE]

\* the API does not know formula "c" (a tap-only formula)
ApiKnownFormulas == <<"a", "b">>
ApiKnownCasks == <<"a", "b", "c">>

\* a manifest GET raises requests.RequestException, or yields a list
ApiOutcomes == {"fail", "empty", "full"}

-----------------------------------------------------------------------------
(* subprocess.run(["brew"] + args) and requests.get(url), as the environment
   answers them.  args is [cmd, is_cask, names]. *)

ListArgs(is_cask) == [cmd |-> "list", is_cask |-> is_cask, names |-> <<>>]
InfoArgs(is_cask, names) == [cmd |-> "info", is_cask |-> is_cask, names |-> names]
HttpGet(is_cask) == [cmd |-> "GET", is_cask |-> is_cask, names |-> <<>>]

FaultHits(is_cask, n) ==
    fault.mode # "none" /\ fault.is_cask = is_cask /\ fault.name = n

WorldObject(is_cask, n) ==
    IF is_cask THEN CaskObject(world, n) ELSE FormulaObject(world, n)

KeyField(is_cask) == IF is_cask THEN "token" ELSE "name"

\* f without the field k
Without(f, k) == [y \in DOMAIN f \ {k} |-> f[y]]

\* the element of the JSON array that answers for one requested name
InfoItem(is_cask, n) ==
    IF ~FaultHits(is_cask, n)
        THEN [t |-> "object", f |-> WorldObject(is_cask, n)]
    ELSE IF fault.mode = "renamed"
        THEN [t |-> "object",
              f |-> Put(WorldObject(is_cask, n), KeyField(is_cask), "x")]
    ELSE IF fault.mode = "nokey"
        THEN [t |-> "object",
              f |-> Without(WorldObject(is_cask, n), KeyField(is_cask))]
    ELSE IF fault.mode = "notobject"
        THEN [t |-> "string", f |-> EmptyDict]
    ELSE [t |-> "omitted", f |-> EmptyDict]

IsPresentItem(item) == item.t # "omitted"

\* the query names the identity whose query misbehaves as a whole
QueryFails(is_cask, names) ==
    /\ fault.mode \in {"error", "garbage", "null"}
    /\ \E i \in DOMAIN names : FaultHits(is_cask, names[i])

FailedProcess ==
    IF fault.mode = "error"
        THEN [returncode |-> 1, stdout |-> [t |-> "empty"]]
    ELSE IF fault.mode = "garbage"
        THEN [returncode |-> 0, stdout |-> [t |-> "garbage"]]
    ELSE [returncode |-> 0, stdout |-> [t |-> "json", v |-> [t |-> "null"]]]

InfoItems(is_cask, names) ==
    SelectSeq([i \in DOMAIN names |-> InfoItem(is_cask, names[i])], IsPresentItem)

\* the process result of `brew info --json [--cask] names`
InfoProcess(is_cask, names) ==
    IF QueryFails(is_cask, names) THEN FailedProcess
    ELSE [returncode |-> 0,
          stdout |-> [t |-> "json",
                      v |-> [t |-> "array", items |-> InfoItems(is_cask, names)]]]

\* the process result of `brew list --formula` / `brew list --cask`
ListOutput(lines) ==
    [returncode |-> 0,
     stdout |-> IF lines = <<>> THEN [t |-> "empty"]
                ELSE [t |-> "lines", lines |-> lines]]

ListProcess(is_cask) == ListOutput(IF is_cask THEN list_cask ELSE list_formula)

Subprocess(args) ==
    IF args.cmd = "list" THEN ListProcess(args.is_cask)
    ELSE InfoProcess(args.is_cask, args.names)

-----------------------------------------------------------------------------
(* Code shared by BrewAnalyzer and OptimizedBrewAnalyzer.  An operation
   returns [exc, val, calls]: the exception that leaves it ("none" when it
   returns), its value, and the external calls it made, in order. *)

PackageInfo(name, description, url, build_dependencies, runtime_dependencies, is_cask) ==
    [name |-> name, description |-> description, url |-> url,
     build_dependencies |-> build_dependencies,
     runtime_dependencies |-> runtime_dependencies, is_cask |-> is_cask]

Ok(val, calls) == [exc |-> "none", val |-> val, calls |-> calls]
Raise(exc, calls) == [exc |-> exc, val |-> None, calls |-> calls]

\* run_brew_command once subprocess.run has returned:
\* CalledProcessError -> "", else result.stdout.strip()
Completed(result) ==
    IF result.returncode # 0
        THEN [exc |-> "none", out |-> [t |-> "empty"]]
    ELSE [exc |-> "none", out |-> result.stdout]

\* FileNotFoundError -> sys.exit(1)
run_brew_command(args) ==
    IF ~brew_present
        THEN [exc |-> "SystemExit", out |-> [t |-> "empty"]]
    ELSE Completed(Subprocess(args))

\* output.split("\n") if output else []
OutputLines(out) == IF out.t = "empty" THEN <<>> ELSE out.lines

AllPackages(pkgs, casks) ==
    [i \in DOMAIN pkgs |-> <<pkgs[i], FALSE>>]
    \o [i \in DOMAIN casks |-> <<casks[i], TRUE>>]

\* get_installed_packages, p and c the results of the two list commands
InstalledFrom(p, c) ==
    IF p.exc # "none" THEN Raise(p.exc, <<ListArgs(FALSE)>>)
    ELSE IF c.exc # "none" THEN Raise(c.exc, <<ListArgs(FALSE), ListArgs(TRUE)>>)
    ELSE Ok(AllPackages(OutputLines(p.out), OutputLines(c.out)),
            <<ListArgs(FALSE), ListArgs(TRUE)>>)

get_installed_packages ==
    InstalledFrom(run_brew_command(ListArgs(FALSE)),
                  run_brew_command(ListArgs(TRUE)))

\* RevAdd with assignment in place of set.add
RevAddAssign(rev, dep, pkg_name) == Put(rev, dep, {pkg_name})

\* self.reverse_dependencies[dep].add(pkg_name) on a defaultdict(set)
RevAdd(rev, dep, pkg_name) == Put(rev, dep, Get(rev, dep, {}) \cup {pkg_name})

RECURSIVE RevAddAll(_, _, _)
RevAddAll(rev, deps, pkg_name) ==
    IF deps = <<>> THEN rev
    ELSE RevAddAll(RevAdd(rev, Head(deps), pkg_name), Tail(deps), pkg_name)

\* the body of the loop over self.packages.items()
RevAddPackage(rev, pkg_name, pkg_info) ==
    RevAddAll(RevAddAll(rev, pkg_info.build_dependencies, pkg_name),
              pkg_info.runtime_dependencies, pkg_name)

NextItem(S) == CHOOSE x \in S : TRUE

RECURSIVE RevLoop(_, _, _)
RevLoop(rev, pkgs, todo) ==
    IF todo = {} THEN rev
    ELSE RevLoop(RevAddPackage(rev, NextItem(todo), pkgs[NextItem(todo)]), pkgs,
                 todo \ {NextItem(todo)})

build_reverse_dependencies(self) ==
    [self EXCEPT !.reverse_dependencies =
        RevLoop(@, self.packages, DOMAIN self.packages)]

Installed == "installed"
Missing == "missing"

\* check_dependency_status looking the name up in the catalog
check_dependency_status_catalog(self, dep_name) ==
    IF dep_name \in DOMAIN self.packages THEN Installed ELSE Missing

check_dependency_status(self, dep_name) ==
    IF dep_name \in self.installed_packages THEN Installed ELSE Missing

\* a str is the sequence of its characters; every package name of the
\* model is one character long, and so is a status mark
Chars(name) == <<name>>

\* f"{status} {dep}"
Entry(mark, dep) == Chars(mark) \o <<" ">> \o Chars(dep)

\* Join putting the parts in reverse order
RECURSIVE JoinReversed(_, _)
JoinReversed(sep, parts) ==
    IF parts = <<>> THEN <<>>
    ELSE IF Len(parts) = 1 THEN parts[1]
    ELSE JoinReversed(sep, Tail(parts)) \o sep \o parts[1]

\* sep.join(parts)
RECURSIVE Join(_, _)
Join(sep, parts) ==
    IF parts = <<>> THEN <<>>
    ELSE IF Len(parts) = 1 THEN parts[1]
    ELSE parts[1] \o sep \o Join(sep, Tail(parts))

\* for dep in dependencies: formatted_deps.append(f"{status} {dep}")
FormattedDeps(self, dependencies) ==
    [i \in DOMAIN dependencies |->
        Entry(check_dependency_status(self, dependencies[i]), dependencies[i])]

format_dependencies(self, dependencies) ==
    IF dependencies = <<>> THEN <<>>
    ELSE Join(<<",", " ">>, FormattedDeps(self, dependencies))

max_reverse_deps_width == 30
max_build_deps_width == 40
max_runtime_deps_width == 40

\* s[: width - 3] + "..." if len(s) > width
Truncate(s, width) ==
    IF Len(s) > width THEN SubSeq(s, 1, width - 3) \o <<".", ".", ".">> ELSE s

\* ReverseGet by indexing: self.reverse_dependencies[pkg_name]
ReverseIndexed(rev, pkg_name) ==
    [rev |-> Put(rev, pkg_name, Get(rev, pkg_name, {})),
     val |-> Get(rev, pkg_name, {})]

\* self.reverse_dependencies.get(pkg_name, set()): the map after the lookup
\* and the value looked up
ReverseGet(rev, pkg_name) == [rev |-> rev, val |-> Get(rev, pkg_name, {})]

\* the "Used By" column: the first three names of list(reverse_deps), whose
\* order is unspecified, and the count of the others
UsedBy(reverse_deps) ==
    [of |-> reverse_deps,
     shown |-> Min(3, Cardinality(reverse_deps)),
     more |-> Cardinality(reverse_deps) - Min(3, Cardinality(reverse_deps))]

\* one row of print_table, g the result of the reverse lookup
TableRow(self, acc, pkg_name, g) ==
    [rev |-> g.rev,
     rows |-> Append(acc.rows,
        [name |-> pkg_name,
         used_by |-> UsedBy(g.val),
         build_deps_str |->
            Truncate(format_dependencies(self,
                        self.packages[pkg_name].build_dependencies),
                     max_build_deps_width),
         runtime_deps_str |->
            Truncate(format_dependencies(self,
                        self.packages[pkg_name].runtime_dependencies),
                     max_runtime_deps_width)])]

\* for pkg_name in sorted(self.packages.keys()): ...
RECURSIVE TableLoop(_, _, _)
TableLoop(self, acc, keys) ==
    IF keys = <<>> THEN acc
    ELSE TableLoop(self,
                   TableRow(self, acc, Head(keys), ReverseGet(acc.rev, Head(keys))),
                   Tail(keys))

\* sorted(self.packages.keys())
SortedKeys(pkgs) == SelectSeq(NameOrder, LAMBDA n : n \in DOMAIN pkgs)

\* print_table: the analyzer after the call and the rows printed
Printed(self, t) ==
    [self |-> [self EXCEPT !.reverse_dependencies = t.rev], rows |-> t.rows]

print_table(self) ==
    IF ~Truthy(self.packages) THEN [self |-> self, rows |-> <<>>]
    ELSE Printed(self, TableLoop(self,
                                 [rev |-> self.reverse_dependencies, rows |-> <<>>],
                                 SortedKeys(self.packages)))

\* {pkg[0] for pkg in installed_list}
InstalledNames(installed_list) ==
    {installed_list[i][1] : i \in DOMAIN installed_list}

\* how an analyze_packages call that raises ends
EndOf(exc) == IF exc = "SystemExit" THEN "exit" ELSE "crash"

NoSources == [api |-> {}, cli |-> {}]

\* what an analyze_packages call leaves: the analyzer, how the call ended,
\* the external calls it made and the names it stored, by source
Outcome(self, end, calls, stored) ==
    [self |-> self, status |-> end, log |-> calls, sources |-> stored]

\* the state of a loop that stores records: [exc, packages, calls, ins],
\* ins the names whose record the loop stored
LoopStart(pkgs) == [exc |-> "none", packages |-> pkgs, calls |-> <<>>, ins |-> {}]

-----------------------------------------------------------------------------
(* BrewAnalyzer: one info query per installed package *)

SingleInfo(package_name, is_cask, pkg_data) ==
    PackageInfo(package_name,
                Get(pkg_data, "desc", NoDescription),
                Get(pkg_data, "homepage", ""),
                IF is_cask THEN <<>> ELSE Get(pkg_data, "build_dependencies", <<>>),
                IF is_cask THEN <<>> ELSE Get(pkg_data, "dependencies", <<>>),
                is_cask)

\* parse_brew_info from pkg_data = info_data[0] on
ParseFirst(package_name, is_cask, info_args, pkg_data) ==
    IF pkg_data.t # "object"                  \* str has no attribute get
        THEN Raise("AttributeError", <<info_args>>)
    ELSE Ok(Some(SingleInfo(package_name, is_cask, pkg_data.f)), <<info_args>>)

\* parse_brew_info from info_data = json.loads(info_output) on
ParseInfoData(package_name, is_cask, info_args, info_data) ==
    IF info_data.t = "null" \/ info_data.items = <<>>     \* not info_data
        THEN Ok(None, <<info_args>>)
    ELSE ParseFirst(package_name, is_cask, info_args, info_data.items[1])

\* parse_brew_info from info_output = self.run_brew_command(info_args) on
ParseInfoOutput(package_name, is_cask, info_args, r) ==
    IF r.exc # "none" THEN Raise(r.exc, <<info_args>>)
    ELSE IF r.out.t = "empty" THEN Ok(None, <<info_args>>)
    ELSE IF r.out.t = "garbage"               \* json.JSONDecodeError, caught
        THEN Ok(None, <<info_args>>)
    ELSE ParseInfoData(package_name, is_cask, info_args, r.out.v)

parse_brew_info(package_name, is_cask) ==
    ParseInfoOutput(package_name, is_cask,
                    InfoArgs(is_cask, <<package_name>>),
                    run_brew_command(InfoArgs(is_cask, <<package_name>>)))

\* one iteration of the loop of analyze_packages, r the result of
\* parse_brew_info
SingleStep(acc, package_name, r) ==
    [exc |-> r.exc,
     packages |-> IF r.val # None THEN Put(acc.packages, package_name, r.val[1])
                  ELSE acc.packages,
     calls |-> acc.calls \o r.calls,
     ins |-> IF r.val # None THEN acc.ins \cup {package_name} ELSE acc.ins]

\* for i, (package_name, is_cask) in enumerate(installed_list, 1): ...
RECURSIVE SingleLoop(_, _, _)
SingleLoop(acc, installed_list, i) ==
    IF i > Len(installed_list) \/ acc.exc # "none" THEN acc
    ELSE SingleLoop(SingleStep(acc, installed_list[i][1],
                               parse_brew_info(installed_list[i][1],
                                               installed_list[i][2])),
                    installed_list, i + 1)

\* analyze_packages after its loop, l the state the loop ended in
AnalyzeEnd(self, e, l) ==
    IF l.exc # "none"
        THEN Outcome([self EXCEPT !.packages = l.packages], EndOf(l.exc),
                     e.calls \o l.calls, [api |-> {}, cli |-> l.ins])
    ELSE Outcome(build_reverse_dependencies([self EXCEPT !.packages = l.packages]),
                 "done", e.calls \o l.calls, [api |-> {}, cli |-> l.ins])

\* analyze_packages, e the result of get_installed_packages
AnalyzeInstalled(self, e) ==
    IF e.exc # "none" THEN Outcome(self, EndOf(e.exc), e.calls, NoSources)
    ELSE IF e.val = <<>> THEN Outcome(self, "empty", e.calls, NoSources)
    ELSE AnalyzeEnd([self EXCEPT !.installed_packages = InstalledNames(e.val)],
                    e, SingleLoop(LoopStart(self.packages), e.val, 1))

analyze_packages(self) == AnalyzeInstalled(self, get_installed_packages)

-----------------------------------------------------------------------------
(* OptimizedBrewAnalyzer: the API manifests, else batched info queries *)

\* the list a manifest GET decodes to
Manifest(is_cask, outcome) ==
    IF outcome # "full" THEN <<>>
    ELSE IF is_cask
        THEN [i \in DOMAIN ApiKnownCasks |-> WorldObject(TRUE, ApiKnownCasks[i])]
    ELSE [i \in DOMAIN ApiKnownFormulas |-> WorldObject(FALSE, ApiKnownFormulas[i])]

\* {f[key]: f for f in objects}
RECURSIVE DictBy(_, _, _)
DictBy(d, objects, key) ==
    IF objects = <<>> THEN d
    ELSE DictBy(Put(d, Head(objects)[key], Head(objects)), Tail(objects), key)

FormulaManifest == DictBy(EmptyDict, Manifest(FALSE, api_formula), "name")
CaskManifest == DictBy(EmptyDict, Manifest(TRUE, api_cask), "token")

\* the results of fetch_api_data: [formulas, casks, api_cache, calls]
Cached(self) ==
    [formulas |-> self.api_cache.formulas, casks |-> self.api_cache.casks,
     api_cache |-> self.api_cache, calls |-> <<>>]

Unavailable(self, calls) ==
    [formulas |-> EmptyDict, casks |-> EmptyDict, api_cache |-> self.api_cache,
     calls |-> calls]

Fetched(formulas, casks) ==
    [formulas |-> formulas, casks |-> casks,
     api_cache |-> [formulas |-> formulas, casks |-> casks],
     calls |-> <<HttpGet(FALSE), HttpGet(TRUE)>>]

\* fetch_api_data keeping the formula manifest when the cask fetch fails
fetch_api_data_partial(self) ==
    IF Truthy(self.api_cache) THEN Cached(self)
    ELSE IF api_formula = "fail" THEN Unavailable(self, <<HttpGet(FALSE)>>)
    ELSE IF api_cask = "fail"
        THEN [formulas |-> FormulaManifest, casks |-> EmptyDict,
              api_cache |-> self.api_cache,
              calls |-> <<HttpGet(FALSE), HttpGet(TRUE)>>]
    ELSE Fetched(FormulaManifest, CaskManifest)

\* fetch_api_data that never reads its cache back
fetch_api_data_cache_miss(self) ==
    IF Truthy(self.api_cache) THEN Unavailable(self, <<>>)
    ELSE IF api_formula = "fail" THEN Unavailable(self, <<HttpGet(FALSE)>>)
    ELSE IF api_cask = "fail"
        THEN Unavailable(self, <<HttpGet(FALSE), HttpGet(TRUE)>>)
    ELSE Fetched(FormulaManifest, CaskManifest)

\* fetch_api_data that fetches the manifests again on every call
fetch_api_data_refetch(self) ==
    IF api_formula = "fail" THEN Unavailable(self, <<HttpGet(FALSE)>>)
    ELSE IF api_cask = "fail"
        THEN Unavailable(self, <<HttpGet(FALSE), HttpGet(TRUE)>>)
    ELSE Fetched(FormulaManifest, CaskManifest)

\* a failing GET raises requests.RequestException, which is caught
fetch_api_data(self) ==
    IF Truthy(self.api_cache) THEN Cached(self)
    ELSE IF api_formula = "fail" THEN Unavailable(self, <<HttpGet(FALSE)>>)
    ELSE IF api_cask = "fail"
        THEN Unavailable(self, <<HttpGet(FALSE), HttpGet(TRUE)>>)
    ELSE Fetched(FormulaManifest, CaskManifest)

ApiCaskInfo(package_name, pkg_data) ==
    PackageInfo(package_name,
                Get(pkg_data, "desc", NoDescription),
                Get(pkg_data, "homepage", ""),
                <<>>, <<>>, TRUE)

ApiFormulaInfo(package_name, pkg_data) ==
    PackageInfo(package_name,
                Get(pkg_data, "desc", NoDescription),
                Get(pkg_data, "homepage", ""),
                Get(pkg_data, "build_dependencies", <<>>),
                Get(pkg_data, "dependencies", <<>>),
                FALSE)

parse_api_data(package_name, is_cask, formulas, casks) ==
    IF is_cask
        THEN IF package_name \notin DOMAIN casks THEN None
             ELSE Some(ApiCaskInfo(package_name, casks[package_name]))
    ELSE IF package_name \notin DOMAIN formulas THEN None
         ELSE Some(ApiFormulaInfo(package_name, formulas[package_name]))

\* {pkg[key]: pkg for pkg in info_data}: [exc, d]
RECURSIVE KeyedBy(_, _, _)
KeyedBy(d, items, key) ==
    IF items = <<>> THEN [exc |-> "none", d |-> d]
    ELSE IF Head(items).t # "object"          \* str indices must be integers
        THEN [exc |-> "TypeError", d |-> d]
    ELSE IF key \notin DOMAIN Head(items).f
        THEN [exc |-> "KeyError", d |-> d]
    ELSE KeyedBy(Put(d, Head(items).f[key], Head(items).f), Tail(items), key)

\* BatchFormulaInfo that leaves the build dependencies out
BatchFormulaInfoNoBuild(formula_name, pkg_data) ==
    PackageInfo(formula_name,
                Get(pkg_data, "desc", NoDescription),
                Get(pkg_data, "homepage", ""),
                <<>>,
                Get(pkg_data, "dependencies", <<>>),
                FALSE)

BatchFormulaInfo(formula_name, pkg_data) ==
    PackageInfo(formula_name,
                Get(pkg_data, "desc", NoDescription),
                Get(pkg_data, "homepage", ""),
                Get(pkg_data, "build_dependencies", <<>>),
                Get(pkg_data, "dependencies", <<>>),
                FALSE)

\* BatchCaskInfo reading the dependency fields as the formula block does
BatchCaskInfoWithDeps(cask_name, pkg_data) ==
    PackageInfo(cask_name,
                Get(pkg_data, "desc", NoDescription),
                Get(pkg_data, "homepage", ""),
                Get(pkg_data, "build_dependencies", <<>>),
                Get(pkg_data, "dependencies", <<>>),
                TRUE)

BatchCaskInfo(cask_name, pkg_data) ==
    PackageInfo(cask_name,
                Get(pkg_data, "desc", NoDescription),
                Get(pkg_data, "homepage", ""),
                <<>>, <<>>, TRUE)

\* [None] * n
Nones(n) == [i \in 1..n |-> None]

\* for name in names: results.append(PackageInfo(...) if name in d else None)
Demux(is_cask, names, d) ==
    [i \in DOMAIN names |->
        IF names[i] \notin DOMAIN d THEN None
        ELSE IF is_cask THEN Some(BatchCaskInfo(names[i], d[names[i]]))
        ELSE Some(BatchFormulaInfo(names[i], d[names[i]]))]

\* a block of parse_brew_info_batch from its dict comprehension on, k the
\* result of the comprehension
BatchKeyed(is_cask, names, info_args, k) ==
    IF k.exc = "KeyError"                     \* caught
        THEN Ok(Nones(Len(names)), <<info_args>>)
    ELSE IF k.exc # "none" THEN Raise(k.exc, <<info_args>>)
    ELSE Ok(Demux(is_cask, names, k.d), <<info_args>>)

\* a block of parse_brew_info_batch from
\* info_output = self.run_brew_command(info_args) on
BatchOutput(is_cask, names, info_args, r) ==
    IF r.exc # "none" THEN Raise(r.exc, <<info_args>>)
    ELSE IF r.out.t = "empty" THEN Ok(Nones(Len(names)), <<info_args>>)
    ELSE IF r.out.t = "garbage"               \* json.JSONDecodeError, caught
        THEN Ok(Nones(Len(names)), <<info_args>>)
    ELSE IF r.out.v.t = "null"                \* None is not iterable
        THEN Raise("TypeError", <<info_args>>)
    ELSE BatchKeyed(is_cask, names, info_args,
                    KeyedBy(EmptyDict, r.out.v.items, KeyField(is_cask)))

\* one of the two blocks of parse_brew_info_batch: `if formulas:` or
\* `if casks:`, the query for the names of that kind and its results
BatchQuery(is_cask, names) ==
    IF names = <<>> THEN Ok(<<>>, <<>>)
    ELSE BatchOutput(is_cask, names, InfoArgs(is_cask, names),
                     run_brew_command(InfoArgs(is_cask, names)))

IsFormulaPkg(pkg) == ~pkg[2]
IsCaskPkg(pkg) == pkg[2]
PkgNames(pkgs) == [i \in DOMAIN pkgs |-> pkgs[i][1]]

\* the results of the formula block, then those of the cask block
BatchJoin(f, c) ==
    IF f.exc # "none" THEN f
    ELSE [exc |-> c.exc, val |-> f.val \o c.val, calls |-> f.calls \o c.calls]

parse_brew_info_batch(pkgs) ==
    BatchJoin(BatchQuery(FALSE, PkgNames(SelectSeq(pkgs, IsFormulaPkg))),
              BatchQuery(TRUE, PkgNames(SelectSeq(pkgs, IsCaskPkg))))

\* ZipInsert pairing the results with the batch in reverse order
RECURSIVE ZipInsertReversed(_, _, _, _)
ZipInsertReversed(acc, batch, batch_results, j) ==
    IF j > Min(Len(batch), Len(batch_results)) THEN acc
    ELSE ZipInsertReversed(
            IF batch_results[Len(batch_results) - j + 1] # None
                THEN [acc EXCEPT
                        !.packages = Put(@, batch[j][1],
                                         batch_results[Len(batch_results) - j + 1][1]),
                        !.ins = @ \cup {batch[j][1]}]
                ELSE acc,
            batch, batch_results, j + 1)

\* for (package_name, _), pkg_info in zip(batch, batch_results): ...
RECURSIVE ZipInsert(_, _, _, _)
ZipInsert(acc, batch, batch_results, j) ==
    IF j > Min(Len(batch), Len(batch_results)) THEN acc
    ELSE ZipInsert(
            IF batch_results[j] # None
                THEN [acc EXCEPT
                        !.packages = Put(@, batch[j][1], batch_results[j][1]),
                        !.ins = @ \cup {batch[j][1]}]
                ELSE acc,
            batch, batch_results, j + 1)

\* one iteration of the batch loop, r the result of parse_brew_info_batch
BatchStep(acc, batch, r) ==
    IF r.exc # "none"
        THEN [acc EXCEPT !.exc = r.exc, !.calls = @ \o r.calls]
    ELSE [ZipInsert(acc, batch, r.val, 1) EXCEPT !.calls = @ \o r.calls]

\* for i in range(0, len(installed_list), self.batch_size): ...
RECURSIVE BatchLoop(_, _, _, _)
BatchLoop(acc, installed_list, i, size) ==
    IF i >= Len(installed_list) \/ acc.exc # "none" THEN acc
    ELSE BatchLoop(BatchStep(acc, Slice(installed_list, i, i + size),
                             parse_brew_info_batch(
                                 Slice(installed_list, i, i + size))),
                   installed_list, i + size, size)

\* one iteration of the API loop, pkg_info the result of parse_api_data
ApiStep(acc, package_name, pkg_info) ==
    IF pkg_info # None
        THEN [acc EXCEPT !.packages = Put(@, package_name, pkg_info[1]),
                         !.ins = @ \cup {package_name}]
    ELSE acc

\* for package_name, is_cask in installed_list: parse_api_data ...
RECURSIVE ApiLoop(_, _, _, _, _)
ApiLoop(acc, installed_list, i, formulas, casks) ==
    IF i > Len(installed_list) THEN acc
    ELSE ApiLoop(ApiStep(acc, installed_list[i][1],
                         parse_api_data(installed_list[i][1],
                                        installed_list[i][2], formulas, casks)),
                 installed_list, i + 1, formulas, casks)

\* the blocks of analyze_packages leave [exc, self, calls, ins]
Skipped(self) == [exc |-> "none", self |-> self, calls |-> <<>>, ins |-> {}]

Stored(self, calls, l) ==
    [exc |-> l.exc, self |-> [self EXCEPT !.packages = l.packages],
     calls |-> calls \o l.calls, ins |-> l.ins]

\* ApiFetched that leaves use_api set when the API is unavailable
ApiFetchedNoFallback(self, installed_list, a) ==
    IF Truthy(a.formulas) \/ Truthy(a.casks)
        THEN Stored([self EXCEPT !.api_cache = a.api_cache], a.calls,
                    ApiLoop(LoopStart(self.packages), installed_list, 1,
                            a.formulas, a.casks))
    ELSE [exc |-> "none", self |-> [self EXCEPT !.api_cache = a.api_cache],
          calls |-> a.calls, ins |-> {}]

\* the `if self.use_api:` block from `if formulas or casks:` on, a the
\* result of fetch_api_data
ApiFetched(self, installed_list, a) ==
    IF Truthy(a.formulas) \/ Truthy(a.casks)
        THEN Stored([self EXCEPT !.api_cache = a.api_cache], a.calls,
                    ApiLoop(LoopStart(self.packages), installed_list, 1,
                            a.formulas, a.casks))
    ELSE [exc |-> "none",
          self |-> [self EXCEPT !.api_cache = a.api_cache, !.use_api = FALSE],
          calls |-> a.calls, ins |-> {}]

\* ApiBlock that tries the API again in every pass
ApiBlockRetrying(self, installed_list) ==
    ApiFetched([self EXCEPT !.use_api = TRUE], installed_list,
               fetch_api_data(self))

\* the `if self.use_api:` block of analyze_packages
ApiBlock(self, installed_list) ==
    IF self.use_api THEN ApiFetched(self, installed_list, fetch_api_data(self))
    ELSE Skipped(self)

\* the `if not self.use_api:` block of analyze_packages
BatchBlock(self, installed_list) ==
    IF ~self.use_api
        THEN Stored(self, <<>>,
                    BatchLoop(LoopStart(self.packages), installed_list, 0,
                              self.batch_size))
    ELSE Skipped(self)

\* analyze_packages after its two blocks, a and b what they left
OptimizedEnd(e, a, b) ==
    IF b.exc # "none"
        THEN Outcome(b.self, EndOf(b.exc), e.calls \o a.calls \o b.calls,
                     [api |-> a.ins, cli |-> b.ins])
    ELSE Outcome(build_reverse_dependencies(b.self), "done",
                 e.calls \o a.calls \o b.calls, [api |-> a.ins, cli |-> b.ins])

\* analyze_packages after its API block
OptimizedAfterApi(e, a) == OptimizedEnd(e, a, BatchBlock(a.self, e.val))

\* OptimizedInstalled assigning installed_packages before it looks at the
\* list
OptimizedInstalledAssignsFirst(self, e) ==
    IF e.exc # "none" THEN Outcome(self, EndOf(e.exc), e.calls, NoSources)
    ELSE IF e.val = <<>>
        THEN Outcome([self EXCEPT !.installed_packages = InstalledNames(e.val)],
                     "empty", e.calls, NoSources)
    ELSE OptimizedAfterApi(
            e, ApiBlock([self EXCEPT !.installed_packages = InstalledNames(e.val)],
                        e.val))

\* analyze_packages, e the result of get_installed_packages
OptimizedInstalled(self, e) ==
    IF e.exc # "none" THEN Outcome(self, EndOf(e.exc), e.calls, NoSources)
    ELSE IF e.val = <<>> THEN Outcome(self, "empty", e.calls, NoSources)
    ELSE OptimizedAfterApi(
            e, ApiBlock([self EXCEPT !.installed_packages = InstalledNames(e.val)],
                        e.val))

optimized_analyze_packages(self) ==
    OptimizedInstalled(self, get_installed_packages)

-----------------------------------------------------------------------------
(* The analyzer instance and its steps *)

Self ==
    [packages |-> packages, reverse_dependencies |-> reverse_dependencies,
     installed_packages |-> installed_packages, use_api |-> use_api,
     batch_size |-> batch_size, api_cache |-> api_cache]

\* BrewAnalyzer() / OptimizedBrewAnalyzer(use_api, batch_size)
Constructed ==
    /\ packages = EmptyDict
    /\ reverse_dependencies = EmptyDict
    /\ installed_packages = {}
    /\ api_cache = EmptyDict
    /\ \/ cls = "BrewAnalyzer" /\ use_api = FALSE /\ batch_size = 1
       \/ cls = "OptimizedBrewAnalyzer" /\ use_api \in BOOLEAN
                                        /\ batch_size \in 1..MaxBatchSize

Faults ==
    {NoFault} \cup [mode : FaultModes, name : Names, is_cask : BOOLEAN]

Environment ==
    /\ brew_present \in BOOLEAN
    /\ list_formula \in SortedLists
    /\ list_cask \in SortedLists
    /\ world \in Worlds
    /\ fault \in Faults
    /\ api_formula \in ApiOutcomes
    /\ api_cask \in ApiOutcomes

\* environments that differ only in what no call of the analyzer can observe
\* are the same environment
Observable ==
    /\ ~brew_present =>
          list_formula = <<>> /\ list_cask = <<>> /\ world = "w1" /\ fault = NoFault
    /\ fault.mode # "none" =>
          fault.name \in Elems(IF fault.is_cask THEN list_cask ELSE list_formula)
    /\ (~use_api \/ ~brew_present \/ (list_formula = <<>> /\ list_cask = <<>>)) =>
          api_formula = "full" /\ api_cask = "full"
    /\ api_formula = "fail" => api_cask = "full"

NoCall == [op |-> "none"]

Init ==
    /\ Constructed
    /\ Environment
    /\ Observable
    /\ status = "new"
    /\ passes = 0
    /\ log = <<>>
    /\ sources = NoSources
    /\ fell_back = FALSE
    /\ changes = 0
    /\ call = NoCall

Store(r) ==
    /\ packages' = r.self.packages
    /\ reverse_dependencies' = r.self.reverse_dependencies
    /\ installed_packages' = r.self.installed_packages
    /\ use_api' = r.self.use_api
    /\ batch_size' = r.self.batch_size
    /\ api_cache' = r.self.api_cache
    /\ status' = r.status
    /\ log' = r.log
    /\ sources' = r.sources
    /\ fell_back' = (fell_back \/ (use_api /\ ~r.self.use_api))
    /\ passes' = passes + 1
    /\ call' = NoCall
    /\ UNCHANGED cls
    /\ UNCHANGED changes
    /\ UNCHANGED envVars

\* a process that raised out of analyze_packages has ended
Alive == status \notin {"exit", "crash"} /\ passes < MaxPasses

Analyze ==
    /\ Alive
    /\ cls = "BrewAnalyzer"
    /\ Store(analyze_packages(Self))

AnalyzeOptimized ==
    /\ Alive
    /\ cls = "OptimizedBrewAnalyzer"
    /\ Store(optimized_analyze_packages(Self))

Next == Analyze \/ AnalyzeOptimized

Spec == Init /\ [][Next]_vars

-----------------------------------------------------------------------------
(* A session: the caller also calls fetch_api_data and print_table on the
   analyzer, and between two passes the user installs or removes a package,
   brew upgrades its package data, or the API changes its availability.
   The session starts with brew present and well-formed info responses. *)

selfVars == <<cls, packages, reverse_dependencies, installed_packages, use_api,
              batch_size, api_cache>>
passVars == <<status, passes, log, sources, fell_back>>

Running == status \notin {"exit", "crash"}

StoreFetch(r) ==
    /\ api_cache' = r.api_cache
    /\ call' = [op |-> "fetch_api_data", formulas |-> r.formulas,
                casks |-> r.casks, calls |-> r.calls]

FetchApiData ==
    /\ Running
    /\ cls = "OptimizedBrewAnalyzer"
    /\ StoreFetch(fetch_api_data(Self))
    /\ UNCHANGED <<cls, packages, reverse_dependencies, installed_packages,
                   use_api, batch_size>>
    /\ UNCHANGED <<passVars, changes, envVars>>

StorePrint(r) ==
    /\ reverse_dependencies' = r.self.reverse_dependencies
    /\ call' = [op |-> "print_table", rows |-> r.rows]

PrintTable ==
    /\ Running
    /\ passes >= 1
    /\ StorePrint(print_table(Self))
    /\ UNCHANGED <<cls, packages, installed_packages, use_api, batch_size,
                   api_cache>>
    /\ UNCHANGED <<passVars, changes, envVars>>

CanChange == Alive /\ passes >= 1 /\ changes < MaxChanges

\* S with n put in if it is not there, taken out if it is
Toggle(S, n) == IF n \in S THEN S \ {n} ELSE S \cup {n}

\* the user installs or removes a formula (the casks are any set from the
\* start on, and stay)
InstallOrRemove ==
    /\ CanChange
    /\ \E n \in Names :
          list_formula' = SortedList(Toggle(Elems(list_formula), n))
    /\ changes' = changes + 1
    /\ call' = NoCall
    /\ UNCHANGED <<selfVars, passVars>>
    /\ UNCHANGED <<brew_present, list_cask, world, fault, api_formula, api_cask>>

\* brew updates the data it holds for the packages
Upgrade ==
    /\ CanChange
    /\ world' \in Worlds \ {world}
    /\ changes' = changes + 1
    /\ call' = NoCall
    /\ UNCHANGED <<selfVars, passVars>>
    /\ UNCHANGED <<brew_present, list_formula, list_cask, fault, api_formula,
                   api_cask>>

\* the API goes down, or comes back with both manifests
ApiChange ==
    /\ CanChange
    /\ cls = "OptimizedBrewAnalyzer"
    /\ api_formula' = IF api_formula = "fail" \/ api_cask = "fail" THEN "full"
                      ELSE "fail"
    /\ api_cask' = "full"
    /\ changes' = changes + 1
    /\ call' = NoCall
    /\ UNCHANGED <<selfVars, passVars>>
    /\ UNCHANGED <<brew_present, list_formula, list_cask, world, fault>>

SessionInit == Init /\ brew_present /\ fault = NoFault

SessionNext ==
    \/ Analyze
    \/ AnalyzeOptimized
    \/ FetchApiData
    \/ PrintTable
    \/ InstallOrRemove
    \/ Upgrade
    \/ ApiChange

SpecSession == SessionInit /\ [][SessionNext]_vars

-----------------------------------------------------------------------------
(* A direct call of parse_brew_info_batch, with any list of identities in
   any order, on a new analyzer that queries brew (the analyzer's own fields
   play no part in the call, and the call changes none). *)

Identities == Names \X BOOLEAN

BatchInputs == UNION {[1..n -> Identities] : n \in 0..MaxBatchLen}

StoreBatchCall(pkgs, r) ==
    call' = [op |-> "parse_brew_info_batch", packages |-> pkgs,
             exc |-> r.exc, results |-> r.val, calls |-> r.calls]

\* `if not packages: return []`, else the two blocks
ParseBatch ==
    /\ Running
    /\ cls = "OptimizedBrewAnalyzer"
    /\ call = NoCall
    /\ \E pkgs \in BatchInputs :
          StoreBatchCall(pkgs, IF pkgs = <<>> THEN Ok(<<>>, <<>>)
                               ELSE parse_brew_info_batch(pkgs))
    /\ UNCHANGED <<selfVars, passVars, changes, envVars>>

BatchCallInit ==
    Init /\ cls = "OptimizedBrewAnalyzer" /\ ~use_api /\ batch_size = 1

BatchCallNext == ParseBatch

SpecBatchCall == BatchCallInit /\ [][BatchCallNext]_vars

-----------------------------------------------------------------------------
(* Direct calls of format_dependencies on a BrewAnalyzer, before and after
   its passes, with any list of names, in an environment that installs
   formulas only. *)

\* every name that can occur as a package or as a dependency
AllNames == Names \cup {"x", "z"}

\* the dependency lists format_dependencies is applied to
DepLists == UNION {[1..n -> AllNames] : n \in 0..MaxDeps}

FormatDependencies ==
    /\ Running
    /\ \E deps \in DepLists :
          call' = [op |-> "format_dependencies", dependencies |-> deps,
                   result |-> format_dependencies(Self, deps)]
    /\ UNCHANGED <<selfVars, passVars, changes, envVars>>

FormatInit ==
    SessionInit /\ cls = "BrewAnalyzer" /\ world = "w1" /\ list_cask = <<>>

FormatNext == Analyze \/ FormatDependencies

SpecFormat == FormatInit /\ [][FormatNext]_vars

-----------------------------------------------------------------------------
(* Properties *)

DepsOf(pkg_info) ==
    Elems(pkg_info.build_dependencies) \cup Elems(pkg_info.runtime_dependencies)

\* the identities enumeration returns in the current environment
EnvInstalledList ==
    [i \in DOMAIN list_formula |-> <<list_formula[i], FALSE>>]
    \o [i \in DOMAIN list_cask |-> <<list_cask[i], TRUE>>]

Returned == status \in {"done", "empty"}

\* C1: after one analyze_packages pass on a freshly constructed analyzer of
\* either class, reverse_dependencies is exactly the transpose of the
\* dependency relation over the catalog: P is in reverse_dependencies[D] iff
\* D occurs in the build or runtime dependencies of catalog package P, and
\* nothing else is in the index.
C1_ReverseIsTranspose ==
    (passes = 1 /\ Returned) =>
        /\ \A P \in DOMAIN packages : \A D \in AllNames :
              (P \in Get(reverse_dependencies, D, {})) <=> (D \in DepsOf(packages[P]))
        /\ \A D \in DOMAIN reverse_dependencies :
              reverse_dependencies[D] \subseteq DOMAIN packages

C1_Witness ==
    /\ passes = 1 /\ status = "done"
    /\ \E D \in DOMAIN reverse_dependencies :
          Cardinality(reverse_dependencies[D]) >= 2
    /\ \E P \in DOMAIN packages :
          /\ packages[P].build_dependencies # <<>>
          /\ packages[P].runtime_dependencies # <<>>

\* C2: every record in the catalog is stored under its own name, that name is
\* the name of an identity enumeration returned with the record's kind, and
\* the record's data is the data brew holds for that identity (no record is
\* stored under another identity's name).
C2_NameIsKey ==
    \A k \in DOMAIN packages :
        /\ packages[k].name = k
        /\ \E i \in DOMAIN EnvInstalledList :
              EnvInstalledList[i] = <<k, packages[k].is_cask>>
        /\ packages[k].url =
              Get(WorldObject(packages[k].is_cask, k), "homepage", "")

C2_Witness ==
    /\ status = "done"
    /\ Cardinality(DOMAIN packages) >= 2
    /\ \E k \in DOMAIN packages : packages[k].is_cask
    /\ \E k \in DOMAIN packages : ~packages[k].is_cask
    /\ cls = "OptimizedBrewAnalyzer" /\ batch_size >= 2 /\ sources.cli # {}

InfoCalls == SelectSeq(log, LAMBDA c : c.cmd = "info")
HttpCalls == SelectSeq(log, LAMBDA c : c.cmd = "GET")

Ceil(n, d) == (n + d - 1) \div d

NumFormulas == Len(list_formula)
NumCasks == Len(list_cask)

\* the last pass took the batch path of OptimizedBrewAnalyzer and returned
BatchPassReturned ==
    cls = "OptimizedBrewAnalyzer" /\ passes >= 1 /\ Returned /\ ~use_api

\* C3 as stated: a Batch pass over F formulas and C casks with batch size B
\* issues exactly ceil(F/B) + ceil(C/B) info queries.
C3_QueriesPerKind ==
    BatchPassReturned =>
        Len(InfoCalls) = Ceil(NumFormulas, batch_size) + Ceil(NumCasks, batch_size)

\* one more query when a chunk of the merged list holds both kinds
MixedChunk == IF NumFormulas % batch_size # 0 /\ NumCasks > 0 THEN 1 ELSE 0

\* C3 amended: a Batch pass that returns issues exactly
\* ceil((F+C)/B) info queries, plus one when F is not a multiple of B and
\* C > 0 (the chunk that holds both kinds is asked once per kind); a pass
\* that is cut short issues no more than that.
C3_QueriesPerChunk ==
    /\ BatchPassReturned =>
          Len(InfoCalls) = Ceil(NumFormulas + NumCasks, batch_size) + MixedChunk
    /\ (cls = "OptimizedBrewAnalyzer" /\ ~use_api) =>
          Len(InfoCalls) <= Ceil(NumFormulas + NumCasks, batch_size) + MixedChunk

C3_Witness ==
    /\ BatchPassReturned /\ status = "done"
    /\ MixedChunk = 1
    /\ Len(InfoCalls) = 3
    /\ Ceil(NumFormulas, batch_size) + Ceil(NumCasks, batch_size) = 2

\* the info queries a batch pass over the enumerated list has to make
ChunkStarts ==
    {i \in 0..(Len(EnvInstalledList) - 1) : i % batch_size = 0}

QueryOf(batch, is_cask) ==
    [is_cask |-> is_cask,
     names |-> IF is_cask THEN PkgNames(SelectSeq(batch, IsCaskPkg))
               ELSE PkgNames(SelectSeq(batch, IsFormulaPkg))]

ChunkQueries ==
    {q \in {QueryOf(Slice(EnvInstalledList, i, i + batch_size), k) :
                i \in ChunkStarts, k \in BOOLEAN} : q.names # <<>>}

\* the response to q is a JSON array of objects that all carry the key field
WellFormed(q) ==
    LET p == InfoProcess(q.is_cask, q.names)
    IN  /\ p.returncode = 0
        /\ p.stdout.t = "json"
        /\ p.stdout.v.t = "array"
        /\ \A i \in DOMAIN p.stdout.v.items :
              /\ p.stdout.v.items[i].t = "object"
              /\ KeyField(q.is_cask) \in DOMAIN p.stdout.v.items[i].f

ResponseContains(q, n) ==
    LET items == InfoProcess(q.is_cask, q.names).stdout.v.items
    IN  \E i \in DOMAIN items : items[i].f[KeyField(q.is_cask)] = n

HasRecord(n, is_cask) == n \in DOMAIN packages /\ packages[n].is_cask = is_cask

\* C4: in a Batch pass (on a fresh analyzer), the identities of a query whose
\* response is empty or malformed get no catalog record, and every identity
\* of every other query whose response is well formed and contains it is in
\* the catalog when the pass has ended.
C4_OnlyTheBadBatchIsLost ==
    (cls = "OptimizedBrewAnalyzer" /\ passes = 1 /\ ~use_api
        /\ status \in {"done", "crash"}) =>
        \A q \in ChunkQueries :
            /\ ~WellFormed(q) =>
                  \A n \in Elems(q.names) : ~HasRecord(n, q.is_cask)
            /\ WellFormed(q) =>
                  \A n \in Elems(q.names) :
                      ResponseContains(q, n) => n \in DOMAIN packages

\* the same, for the passes that return
C4_WhenThePassReturns ==
    status = "done" => C4_OnlyTheBadBatchIsLost

FreshBatchSelf ==
    [packages |-> EmptyDict, reverse_dependencies |-> EmptyDict,
     installed_packages |-> {}, use_api |-> FALSE, batch_size |-> batch_size,
     api_cache |-> EmptyDict]

ApiUnavailable == api_formula = "fail" \/ api_cask = "fail"

\* the pass was made by an analyzer constructed with use_api=True
FirstPassWithApi ==
    cls = "OptimizedBrewAnalyzer" /\ passes = 1 /\ HttpCalls # <<>>

\* C5: with the API strategy and the API unavailable, the catalog after the
\* pass equals the catalog a fresh analyzer constructed with the Batch
\* strategy and the same batch size produces in the same environment.
C5_FallbackEqualsBatch ==
    (FirstPassWithApi /\ ApiUnavailable) =>
        packages = optimized_analyze_packages(FreshBatchSelf).self.packages

C5_Witness ==
    /\ FirstPassWithApi /\ api_cask = "fail" /\ status = "done"
    /\ Cardinality(DOMAIN packages) >= 2
    /\ fault.mode # "none"

\* C6: after enumeration, check_dependency_status calls a name present iff
\* enumeration returned it, whatever the catalog holds.
C6_StatusFromInstalledSet ==
    passes >= 1 =>
        \A D \in AllNames :
            (check_dependency_status(Self, D) = Installed)
                <=> (D \in Elems(list_formula) \cup Elems(list_cask))

C6_Witness ==
    /\ status = "done"
    /\ \E D \in AllNames :
          /\ D \notin DOMAIN packages
          /\ D \in Elems(list_formula) \cup Elems(list_cask)
          /\ check_dependency_status(Self, D) = Installed
    /\ \E P \in DOMAIN packages : \E D \in DepsOf(packages[P]) :
          check_dependency_status(Self, D) = Missing

\* C7: a second analyze_packages call in an unchanged environment leaves the
\* catalog and reverse_dependencies as the first call left them.
C7_SecondPassChangesNothing ==
    [][passes >= 1 =>
          /\ packages' = packages
          /\ reverse_dependencies' = reverse_dependencies]_vars

C7_Witness ==
    /\ passes = 2 /\ status = "done"
    /\ Cardinality(DOMAIN packages) >= 2
    /\ reverse_dependencies # EmptyDict
    /\ sources.api # {}

\* C8: every cask record has empty build and runtime dependency lists,
\* whatever produced it and whatever its response object carries, and no
\* cask is a dependent in reverse_dependencies.
C8_CasksHaveNoDependencies ==
    /\ \A k \in DOMAIN packages :
          packages[k].is_cask =>
              /\ packages[k].build_dependencies = <<>>
              /\ packages[k].runtime_dependencies = <<>>
    /\ \A D \in DOMAIN reverse_dependencies :
          \A P \in reverse_dependencies[D] :
              P \in DOMAIN packages /\ ~packages[P].is_cask

C8_Witness ==
    /\ status = "done"
    /\ reverse_dependencies # EmptyDict
    /\ \E k \in DOMAIN packages :
          /\ packages[k].is_cask
          /\ "dependencies" \in DOMAIN CaskObject(world, k)
          /\ ~FaultHits(TRUE, k)

\* C9: an analyze_packages call ends in a fatal error only when enumeration
\* failed because brew cannot be started; no info query, failing, empty or
\* malformed, aborts the call.
C9_FatalOnlyWithoutBrew ==
    status \in {"exit", "crash"} => ~brew_present

\* C10: when a manifest fetch fails, fetch_api_data returns two empty
\* manifests and leaves the cache empty, nothing is stored from the API in
\* that pass and the pass falls back to batch queries; no pass stores records
\* from both the API and info queries.
C10_ApiFailsClosed ==
    /\ (cls = "OptimizedBrewAnalyzer" /\ ApiUnavailable) =>
          /\ ~Truthy(fetch_api_data(Self).formulas)
          /\ ~Truthy(fetch_api_data(Self).casks)
          /\ ~Truthy(fetch_api_data(Self).api_cache)
          /\ ~Truthy(api_cache)
    /\ (FirstPassWithApi /\ ApiUnavailable) =>
          sources.api = {} /\ ~use_api
    /\ sources.api = {} \/ sources.cli = {}

C10_Witness ==
    /\ FirstPassWithApi /\ status = "done"
    /\ api_formula = "full" /\ api_cask = "fail"
    /\ Len(HttpCalls) = 2
    /\ sources.cli # {}
    /\ \E i \in DOMAIN ApiKnownFormulas : ApiKnownFormulas[i] \in sources.cli

\* C11: once fetch_api_data has succeeded on an analyzer (its cache is
\* set), the cache never changes again, every later fetch_api_data call
\* issues no HTTP request and returns the cached manifests, and every later
\* pass issues no HTTP request; a pass that resolves from the manifests
\* issues no info query.
C11_FetchedAtMostOnce ==
    [][/\ (cls = "OptimizedBrewAnalyzer" /\ Truthy(api_cache)) =>
             /\ api_cache' = api_cache
             /\ call'.op = "fetch_api_data" =>
                   /\ call'.calls = <<>>
                   /\ call'.formulas = api_cache.formulas
                   /\ call'.casks = api_cache.casks
             /\ passes' = passes + 1 => HttpCalls' = <<>>
       /\ (passes' = passes + 1 /\ use_api') => InfoCalls' = <<>>]_vars

C11_Witness ==
    /\ call.op = "fetch_api_data"
    /\ call.calls = <<>>
    /\ Truthy(call.formulas)
    /\ api_formula = "fail"
    /\ changes = 1
    /\ passes = 2 /\ status = "done"
    /\ sources.api # {}
    /\ HttpCalls = <<>>

\* the last pass resolved from the API manifests
ApiPass == cls = "OptimizedBrewAnalyzer" /\ passes >= 1 /\ use_api

\* the identity's metadata resolves in a pass whose info responses are all
\* well formed: from the manifest that knows it, or from brew
Resolves(n, is_cask) ==
    IF ~ApiPass THEN TRUE
    ELSE IF is_cask THEN api_cask = "full" /\ n \in Elems(ApiKnownCasks)
    ELSE api_formula = "full" /\ n \in Elems(ApiKnownFormulas)

\* C12: after a pass on a fresh analyzer in which every response is well
\* formed, the catalog holds a record of name n and kind k for exactly the
\* installed identities (n, k) that resolved, also when n is installed both
\* as a formula and as a cask.
C12_OneEntryPerIdentity ==
    (passes = 1 /\ status = "done" /\ fault.mode = "none") =>
        \A i \in DOMAIN EnvInstalledList :
            Resolves(EnvInstalledList[i][1], EnvInstalledList[i][2])
                <=> HasRecord(EnvInstalledList[i][1], EnvInstalledList[i][2])

\* a name installed both as a formula and as a cask
DualInstalled == Elems(list_formula) \cap Elems(list_cask)

\* the same, for the identities whose name is installed once
C12_WhenNamesAreUnique ==
    (passes = 1 /\ status = "done" /\ fault.mode = "none") =>
        \A i \in DOMAIN EnvInstalledList :
            EnvInstalledList[i][1] \notin DualInstalled =>
                (Resolves(EnvInstalledList[i][1], EnvInstalledList[i][2])
                    <=> HasRecord(EnvInstalledList[i][1], EnvInstalledList[i][2]))

\* the first pass of a BrewAnalyzer with brew present has ended
SinglePassEnded == cls = "BrewAnalyzer" /\ passes = 1 /\ brew_present

\* one info query per installed identity, in the order of the list
SingleQueries ==
    [i \in DOMAIN EnvInstalledList |->
        InfoArgs(EnvInstalledList[i][2], <<EnvInstalledList[i][1]>>)]

\* C13: a Single pass issues exactly one info query per installed identity,
\* and every identity whose own query is answered well is in the catalog
\* when the pass has ended, whatever the query of another identity answered.
C13_SingleIsIndependent ==
    SinglePassEnded =>
        /\ InfoCalls = SingleQueries
        /\ \A i \in DOMAIN EnvInstalledList :
              ~FaultHits(EnvInstalledList[i][2], EnvInstalledList[i][1]) =>
                  EnvInstalledList[i][1] \in DOMAIN packages

\* the same, for the passes that return
C13_WhenThePassReturns ==
    Returned => C13_SingleIsIndependent

\* the first pass of an OptimizedBrewAnalyzer took the batch path, with
\* brew present, and has ended
BatchPassEnded ==
    cls = "OptimizedBrewAnalyzer" /\ passes = 1 /\ ~use_api /\ brew_present

\* the queries of one chunk: its formulas, then its casks, none for a kind
\* the chunk does not hold
QueriesOfChunk(batch) ==
    (IF SelectSeq(batch, IsFormulaPkg) = <<>> THEN <<>>
     ELSE <<InfoArgs(FALSE, PkgNames(SelectSeq(batch, IsFormulaPkg)))>>)
    \o (IF SelectSeq(batch, IsCaskPkg) = <<>> THEN <<>>
        ELSE <<InfoArgs(TRUE, PkgNames(SelectSeq(batch, IsCaskPkg)))>>)

\* the queries of the consecutive chunks of batch_size identities, from the
\* 0-based position i on
RECURSIVE QueriesFrom(_)
QueriesFrom(i) ==
    IF i >= Len(EnvInstalledList) THEN <<>>
    ELSE QueriesOfChunk(Slice(EnvInstalledList, i, i + batch_size))
         \o QueriesFrom(i + batch_size)

\* the info queries of the last pass that ask for identity (n, is_cask)
QueriesNaming(n, is_cask) ==
    {i \in DOMAIN InfoCalls :
        InfoCalls[i].is_cask = is_cask /\ n \in Elems(InfoCalls[i].names)}

\* C14: in a Batch pass the info queries are those of the consecutive
\* chunks of at most batch_size identities of the installed list, in order;
\* every installed identity is named by exactly one query, which carries its
\* kind flag; and no query is issued twice.
C14_EveryIdentityQueriedOnce ==
    BatchPassEnded =>
        /\ InfoCalls = QueriesFrom(0)
        /\ \A i \in DOMAIN EnvInstalledList :
              Cardinality(QueriesNaming(EnvInstalledList[i][1],
                                        EnvInstalledList[i][2])) = 1
        /\ \A i, j \in DOMAIN InfoCalls : InfoCalls[i] = InfoCalls[j] => i = j

\* the same, for the passes that return
C14_WhenThePassReturns ==
    Returned => C14_EveryIdentityQueriedOnce

\* reverse_dependencies is the transpose of the dependency relation of the
\* current catalog, and holds nothing else
ReverseIsTransposeOfCatalog ==
    /\ \A D \in DOMAIN reverse_dependencies : \A P \in reverse_dependencies[D] :
          P \in DOMAIN packages /\ D \in DepsOf(packages[P])
    /\ \A P \in DOMAIN packages : \A D \in DepsOf(packages[P]) :
          D \in DOMAIN reverse_dependencies /\ P \in reverse_dependencies[D]

\* C15: after every completed analyze_packages call on an analyzer, also a
\* later one made after the installed set or the dependency lists changed,
\* reverse_dependencies is the transpose of the dependency relation of the
\* current catalog, with no edge left over from an earlier pass.
C15_ReverseRebuilt ==
    (passes >= 1 /\ Returned) => ReverseIsTransposeOfCatalog

\* the same, as long as the environment has not changed
C15_WhileNothingChanged ==
    changes = 0 => C15_ReverseRebuilt

\* the names some catalog record lists as a build or runtime dependency
DependencyNames == UNION {DepsOf(packages[P]) : P \in DOMAIN packages}

\* print_table has been called after the one pass made on the analyzer
TablePrinted == call.op = "print_table" /\ passes = 1 /\ Returned

\* C16: after analyze_packages on a fresh analyzer followed by print_table,
\* the keys of reverse_dependencies are exactly the names that occur in the
\* dependency lists of some catalog record: rendering creates no entry.
C16_KeysAreDependencyNames ==
    TablePrinted => DOMAIN reverse_dependencies = DependencyNames

C16_Witness ==
    /\ TablePrinted
    /\ Len(call.rows) >= 2
    /\ reverse_dependencies # EmptyDict
    /\ \E i \in DOMAIN call.rows :
          /\ call.rows[i].name \notin DOMAIN reverse_dependencies
          /\ call.rows[i].used_by.shown = 0
    /\ \E i \in DOMAIN call.rows : call.rows[i].used_by.shown >= 1

\* the mark format_dependencies has to give a dependency
MarkOf(dep) == IF dep \in installed_packages THEN Installed ELSE Missing

\* s is "<mark> <dep>" for each element of deps, in order, joined by ", "
IsFormatOf(s, deps) ==
    /\ Len(s) = IF deps = <<>> THEN 0 ELSE 5 * Len(deps) - 2
    /\ \A i \in DOMAIN deps :
          /\ s[5 * (i - 1) + 1] = MarkOf(deps[i])
          /\ s[5 * (i - 1) + 2] = " "
          /\ s[5 * (i - 1) + 3] = deps[i]
    /\ \A i \in 1..(Len(deps) - 1) :
          s[5 * i - 1] = "," /\ s[5 * i] = " "

\* C17: format_dependencies returns one entry per element of the list, in
\* the list's order, each with the status mark of its own dependency
\* (installed iff the name is in installed_packages); the empty string for
\* the empty list.
C17_FormatDependencies ==
    call.op = "format_dependencies" =>
        IsFormatOf(call.result, call.dependencies)

C17_Witness ==
    /\ call.op = "format_dependencies"
    /\ passes >= 1
    /\ Len(call.dependencies) = 2
    /\ Installed \in Elems(call.result)
    /\ Missing \in Elems(call.result)
    /\ call.dependencies[1] \notin installed_packages
    /\ call.dependencies[2] \in installed_packages

\* parse_brew_info_batch has been called directly and has returned
BatchCallReturned == call.op = "parse_brew_info_batch" /\ call.exc = "none"

\* the i-th result is None or a record of the i-th input identity
AlignedAt(i) ==
    \/ call.results[i] = None
    \/ /\ call.results[i][1].name = call.packages[i][1]
       /\ call.results[i][1].is_cask = call.packages[i][2]

\* C18: parse_brew_info_batch returns a list as long as its input whose
\* i-th element is None or a record with the name and kind of the i-th
\* input identity, for any order of formulas and casks in the input.
C18_ResultsAlignWithInput ==
    BatchCallReturned =>
        /\ Len(call.results) = Len(call.packages)
        /\ \A i \in DOMAIN call.results : AlignedAt(i)

\* no cask comes before a formula in the input
FormulasFirst(pkgs) ==
    \A i, j \in DOMAIN pkgs : (pkgs[i][2] /\ ~pkgs[j][2]) => j < i

\* the same, for the inputs analyze_packages passes: formulas, then casks
C18_WhenFormulasComeFirst ==
    (BatchCallReturned /\ FormulasFirst(call.packages)) =>
        C18_ResultsAlignWithInput

\* OptimizedBrewAnalyzer(use_api=False, batch_size=size)
FreshBatchOf(size) ==
    [packages |-> EmptyDict, reverse_dependencies |-> EmptyDict,
     installed_packages |-> {}, use_api |-> FALSE, batch_size |-> size,
     api_cache |-> EmptyDict]

\* what a Batch pass of a new analyzer leaves in the current environment
BatchPassOf(size) == optimized_analyze_packages(FreshBatchOf(size)).self

\* a Single pass on a new analyzer has returned, and every info response
\* is well formed and keyed by the requested name
SinglePassAllWell ==
    cls = "BrewAnalyzer" /\ passes = 1 /\ Returned /\ fault.mode = "none"

\* C19: with the same installed list and the same well-formed responses, a
\* Single pass and a Batch pass of any batch size leave equal catalogs and
\* equal reverse indices.
C19_SingleEqualsBatch ==
    SinglePassAllWell =>
        \A size \in 1..MaxBatchSize :
            /\ BatchPassOf(size).packages = packages
            /\ BatchPassOf(size).reverse_dependencies = reverse_dependencies

C19_Witness ==
    /\ SinglePassAllWell /\ status = "done"
    /\ Cardinality(DOMAIN packages) = 3
    /\ Len(EnvInstalledList) > 3
    /\ \E k \in DOMAIN packages : packages[k].is_cask
    /\ \E k \in DOMAIN packages : packages[k].build_dependencies # <<>>
    /\ Cardinality(DOMAIN reverse_dependencies) >= 2

\* C20: an analyze_packages call made when brew lists no formula and no
\* cask returns after the two list commands, with no info query and no HTTP
\* request, and leaves the catalog, reverse_dependencies and
\* installed_packages as they were before the call.
C20_EmptyListChangesNothing ==
    [][(passes' = passes + 1 /\ brew_present
            /\ list_formula = <<>> /\ list_cask = <<>>) =>
          /\ status' = "empty"
          /\ log' = <<ListArgs(FALSE), ListArgs(TRUE)>>
          /\ packages' = packages
          /\ reverse_dependencies' = reverse_dependencies
          /\ installed_packages' = installed_packages]_vars

C20_Witness ==
    /\ passes = 2 /\ status = "empty" /\ changes = 1
    /\ cls = "OptimizedBrewAnalyzer" /\ use_api
    /\ packages # EmptyDict
    /\ reverse_dependencies # EmptyDict
    /\ installed_packages # {}
    /\ log = <<ListArgs(FALSE), ListArgs(TRUE)>>

\* C21: once a pass has found the API unavailable and fallen back,
\* use_api stays false, and every later pass on the analyzer issues no HTTP
\* request, stores nothing from the API and, when it completes, has made the
\* batch queries of the installed list, also when the API is available
\* again.
C21_FallbackIsPermanent ==
    [][fell_back =>
          /\ ~use_api /\ ~use_api'
          /\ passes' = passes + 1 =>
                /\ HttpCalls' = <<>>
                /\ sources'.api = {}
                /\ status' = "done" => InfoCalls' = QueriesFrom(0)']_vars

C21_Witness ==
    /\ fell_back
    /\ passes = 2 /\ status = "done" /\ changes = 1
    /\ api_formula = "full" /\ api_cask = "full"
    /\ ~use_api
    /\ HttpCalls = <<>>
    /\ InfoCalls # <<>>
    /\ sources.cli # {}

====
